---- MODULE Spec2Model ----
(***************************************************************************)
(* The local-document management system: the relational tables declared   *)
(* in model.py, the query/mutation functions of model.py and the request  *)
(* handlers of app_source/app.py that call them.                          *)
(*                                                                         *)
(* Text values are sequences of one-character strings, so that the         *)
(* handlers' .strip() is computed and not assumed.  Python's None and      *)
(* SQL's NULL are the value None, which no text equals.                    *)
(***************************************************************************)
EXTENDS Integers, Sequences, FiniteSets, TLC

\* ------------------------------------------------------------------ bounds

\* The largest document_id the AUTO_INCREMENT of document_info hands out.
MaxDocId == 3

\* The largest collection_id the AUTO_INCREMENT of collection_info hands out.
MaxFavId == 3

\* The number of requests that may be in flight at the same time.
MaxProcs == 2

\* The largest annotation_id the AUTO_INCREMENT of annotation hands out.
MaxNoteId == 2

\* The last tick of the clock.
MaxClock == 2

\* The largest access_id the AUTO_INCREMENT of access_record hands out.
MaxAccessId == 4

\* The largest user_id the AUTO_INCREMENT of user_info hands out.
MaxUserId == 4

\* The number of sessions get_session() hands out.
MaxSessions == 3

\* ------------------------------------------------------------------ values

None == <<"None">>

\* What a browser may send in the name field of the document forms.
FormNames == { <<" ">>, <<"a">>, <<"a", " ">>, <<" ", "b">> }

\* What a browser may send in the region and intro fields.
FormRegions == { <<>>, <<"x", " ">> }
FormIntros == { <<>>, <<"y">> }

\* Arguments of direct calls of the query layer.
ArgNames == { <<"a">>, <<"b">> }
ArgRegions == { None, <<"x">> }
ArgIntros == { None, <<"y">> }

DocIds == 1..MaxDocId
UserIds == {1, 2}
ResourceIds == {1, 2}
Tags == { <<>>, <<"t">> }
Procs == 1..MaxProcs

\* str.strip(): leading and trailing blanks removed, inner ones kept.
RECURSIVE lstrip(_)
lstrip(s) ==
    IF s # <<>> /\ Head(s) = " " THEN lstrip(Tail(s)) ELSE s

RECURSIVE rstrip(_)
rstrip(s) ==
    IF s # <<>> /\ s[Len(s)] = " " THEN rstrip(SubSeq(s, 1, Len(s) - 1)) ELSE s

strip(s) == rstrip(lstrip(s))

\* ------------------------------------------------------------------ state

VARIABLES
    document_info,    \* rows of table document_info (class Document)
    doc_seq,          \* last document_id handed out by AUTO_INCREMENT
    resource_content, \* rows of table resource_content (class Resource)
    annotation,       \* rows of table annotation (class Note)
    collection_info,  \* rows of table collection_info (class Favorite)
    fav_seq,          \* last collection_id handed out by AUTO_INCREMENT
    access_record,    \* rows of the access-record table (class AccessRecord)
    inflight,         \* per request slot: the handler's position and locals
    resp,             \* what the last finished handler or call returned
    user_info,        \* rows of table user_info (class User)
    note_seq,         \* last annotation_id handed out by AUTO_INCREMENT
    clock,            \* the time: datetime.utcnow() and the database's NOW()
    results,          \* the resource_ids the last search returned
    sessions          \* the sessions get_session() made: how many, which are
                      \* open, which one each request in flight holds

tables == <<document_info, doc_seq, resource_content, annotation,
            collection_info, fav_seq, access_record>>

\* The state that the document and favorite operations never touch.
ext == <<user_info, note_seq, clock, results, sessions>>

vars == <<document_info, doc_seq, resource_content, annotation,
          collection_info, fav_seq, access_record, inflight, resp,
          user_info, note_seq, clock, results, sessions>>

\* session.get(Document, id) / a query's .first() finding nothing: None.
NoDocument ==
    [document_id |-> 0, document_name |-> None,
     document_region |-> None, document_intro |-> None]

Idle == [pc |-> "idle", op |-> "none", user_id |-> 0, resource_id |-> 0,
         tags |-> <<>>, found |-> 0,
         name |-> <<>>, region |-> <<>>, intro |-> <<>>]

Response(op, status, id, flag) ==
    [op |-> op, status |-> status, id |-> id, flag |-> flag]

\* The resources db.sql's seed stores, both of document 1.
SeedResources ==
    { [resource_id |-> 1, document_id |-> 1,
       original_text |-> <<"A", "b">>,
       simplified_text |-> <<"a", "b", " ", "c">>,
       vernacular_translation |-> None],
      [resource_id |-> 2, document_id |-> 1,
       original_text |-> <<"c">>,
       simplified_text |-> <<"b", "c">>,
       vernacular_translation |-> <<"a", " ", "c">>] }

\* The database as db.sql's seed leaves it, but for the resources and the
\* clock: two users, one document, and a note and an access record of
\* user 1 on resource 1.  No handler creates resources.
InitCommon ==
    /\ document_info =
         { [document_id |-> 1, document_name |-> <<"a">>,
            document_region |-> <<"x">>, document_intro |-> None] }
    /\ doc_seq = 1
    /\ annotation =
         { [annotation_id |-> 1, user_id |-> 1, resource_id |-> 1,
            annotation_content |-> <<"n">>, annotation_tags |-> <<>>,
            annotation_time |-> 0, update_time |-> 0] }
    /\ note_seq = 1
    /\ collection_info = {}
    /\ fav_seq = 0
    /\ access_record =
         { [access_id |-> 1, user_id |-> 1, resource_id |-> 1,
            read_progress |-> 0, access_time |-> 0] }
    /\ user_info =
         { [user_id |-> 1, username |-> <<"u">>, user_email |-> <<"e">>],
           [user_id |-> 2, username |-> <<"v">>, user_email |-> <<"f">>] }
    /\ inflight = [p \in Procs |-> Idle]
    /\ resp = Response("none", "none", 0, FALSE)
    /\ results = {}
    /\ sessions = [made |-> 0, open |-> {}, held |-> [p \in Procs |-> 0]]

Init ==
    /\ InitCommon
    /\ resource_content = SeedResources
    /\ clock = [utc |-> 1, local |-> 1]

\* ------------------------------------------------- query layer: documents

\* Mutant: the name column declared without unique=True.
document_name_not_unique == FALSE

\* Column(String(255), unique=True) on document_name: the storage layer
\* refuses a second row with the same name.
document_name_unique == TRUE

\* Column(BigInteger, ForeignKey(...), nullable=False) on
\* resource_content.document_id.
document_id_nullable == FALSE

get_document_by_id(documents, document_id) ==
    IF \E d \in documents : d.document_id = document_id
    THEN CHOOSE d \in documents : d.document_id = document_id
    ELSE NoDocument

\* Mutant: the handler's name check left out.
name_exists_unchecked(documents, name) == FALSE

\* session.query(Document).filter(Document.document_name == name).first()
name_exists(documents, name) ==
    \E d \in documents : d.document_name = name

\* Mutant: the edit handler's check without Document.document_id != doc_id.
name_exists_including_self(documents, name, doc_id) ==
    \E d \in documents : d.document_name = name

\* The same query with Document.document_id != doc_id.
name_exists_elsewhere(documents, name, doc_id) ==
    \E d \in documents : d.document_name = name /\ d.document_id # doc_id

\* The INSERT or UPDATE of a row: refused when another row holds the name.
violates_unique(documents, row) ==
    /\ document_name_unique
    /\ \E d \in documents :
         /\ d.document_id # row.document_id
         /\ d.document_name = row.document_name

\* Mutant: Document(...) built without document_intro=intro.
create_document_without_intro(documents, seq, name, region, intro) ==
    LET doc == [document_id |-> seq + 1, document_name |-> name,
                document_region |-> region, document_intro |-> None]
    IN  IF violates_unique(documents, doc)
        THEN [raised |-> TRUE, documents |-> documents, seq |-> seq,
              doc |-> NoDocument]
        ELSE [raised |-> FALSE, documents |-> documents \cup {doc},
              seq |-> seq + 1, doc |-> doc]

\* create_document: add, commit, refresh, return the row.  A refused commit
\* raises IntegrityError and stores nothing.
create_document(documents, seq, name, region, intro) ==
    LET doc == [document_id |-> seq + 1, document_name |-> name,
                document_region |-> region, document_intro |-> intro]
    IN  IF violates_unique(documents, doc)
        THEN [raised |-> TRUE, documents |-> documents, seq |-> seq,
              doc |-> NoDocument]
        ELSE [raised |-> FALSE, documents |-> documents \cup {doc},
              seq |-> seq + 1, doc |-> doc]

\* Mutant: the "if region is not None" test left out.
update_document_region_always(documents, document_id, name, region, intro) ==
    LET doc == get_document_by_id(documents, document_id)
        new == [document_id |-> doc.document_id,
                document_name |-> IF name # None THEN name
                                  ELSE doc.document_name,
                document_region |-> region,
                document_intro |-> IF intro # None THEN intro
                                   ELSE doc.document_intro]
    IN  IF doc = NoDocument
        THEN [raised |-> FALSE, documents |-> documents, doc |-> NoDocument]
        ELSE IF violates_unique(documents, new)
        THEN [raised |-> TRUE, documents |-> documents, doc |-> NoDocument]
        ELSE [raised |-> FALSE,
              documents |-> (documents \ {doc}) \cup {new}, doc |-> new]

\* Mutant: the "if not doc: return None" test left out, so that the first
\* assignment to the missing document raises.
update_document_unguarded(documents, document_id, name, region, intro) ==
    LET doc == get_document_by_id(documents, document_id)
        new == [document_id |-> doc.document_id,
                document_name |-> IF name # None THEN name
                                  ELSE doc.document_name,
                document_region |-> IF region # None THEN region
                                    ELSE doc.document_region,
                document_intro |-> IF intro # None THEN intro
                                   ELSE doc.document_intro]
    IN  IF doc = NoDocument \/ violates_unique(documents, new)
        THEN [raised |-> TRUE, documents |-> documents, doc |-> NoDocument]
        ELSE [raised |-> FALSE,
              documents |-> (documents \ {doc}) \cup {new}, doc |-> new]

\* update_document: None when the id is absent; otherwise each argument that
\* is not None overwrites its field, then commit.
update_document(documents, document_id, name, region, intro) ==
    LET doc == get_document_by_id(documents, document_id)
        new == [document_id |-> doc.document_id,
                document_name |-> IF name # None THEN name
                                  ELSE doc.document_name,
                document_region |-> IF region # None THEN region
                                    ELSE doc.document_region,
                document_intro |-> IF intro # None THEN intro
                                   ELSE doc.document_intro]
    IN  IF doc = NoDocument
        THEN [raised |-> FALSE, documents |-> documents, doc |-> NoDocument]
        ELSE IF violates_unique(documents, new)
        THEN [raised |-> TRUE, documents |-> documents, doc |-> NoDocument]
        ELSE [raised |-> FALSE,
              documents |-> (documents \ {doc}) \cup {new}, doc |-> new]

\* The flush of session.delete(doc).  Document.resources is a plain
\* relationship (no cascade, no passive_deletes), so the unit of work first
\* detaches the document's resources by setting their document_id to NULL,
\* and only then deletes the document row.  The column is NOT NULL, so the
\* detaching UPDATE is refused whenever there is a resource to detach.
flush_delete(documents, resources, doc) ==
    LET children == { r \in resources : r.document_id = doc.document_id }
        detached == { [r EXCEPT !.document_id = 0] : r \in children }
    IN  IF children # {} /\ ~document_id_nullable
        THEN [raised |-> TRUE, documents |-> documents,
              resources |-> resources]
        ELSE [raised |-> FALSE, documents |-> documents \ {doc},
              resources |-> (resources \ children) \cup detached]

\* Mutant: True returned for an absent id as well.
delete_document_always_true(documents, resources, document_id) ==
    LET doc == get_document_by_id(documents, document_id)
        done == flush_delete(documents, resources, doc)
    IN  IF doc = NoDocument
        THEN [raised |-> FALSE, returned |-> TRUE, documents |-> documents,
              resources |-> resources]
        ELSE [raised |-> done.raised, returned |-> ~done.raised,
              documents |-> done.documents, resources |-> done.resources]

\* delete_document: False when the id is absent, True after the commit.
delete_document(documents, resources, document_id) ==
    LET doc == get_document_by_id(documents, document_id)
        done == flush_delete(documents, resources, doc)
    IN  IF doc = NoDocument
        THEN [raised |-> FALSE, returned |-> FALSE, documents |-> documents,
              resources |-> resources]
        ELSE [raised |-> done.raised, returned |-> ~done.raised,
              documents |-> done.documents, resources |-> done.resources]

\* ------------------------------------------- request handlers: documents
\* The POST requests of a logged-in user.  Each handler opens its own
\* session, and session.close() in its finally clause discards whatever a
\* failed commit left behind.  The response records which flash message or
\* JSON body the handler ends with: "validation", "conflict", "not_found",
\* "ok", or "error" for the except clause.

add_document(rawname, rawregion, rawintro) ==
    LET name == strip(rawname)
        region == strip(rawregion)
        intro == strip(rawintro)
        made == create_document(document_info, doc_seq, name, region, intro)
    IN  /\ IF name = <<>>
           THEN /\ resp' = Response("add_document", "validation", 0, FALSE)
                /\ UNCHANGED <<document_info, doc_seq>>
           ELSE IF name_exists(document_info, name)
           THEN /\ resp' = Response("add_document", "conflict", 0, FALSE)
                /\ UNCHANGED <<document_info, doc_seq>>
           ELSE IF made.raised
           THEN /\ resp' = Response("add_document", "error", 0, FALSE)
                /\ UNCHANGED <<document_info, doc_seq>>
           ELSE /\ doc_seq < MaxDocId
                /\ document_info' = made.documents
                /\ doc_seq' = made.seq
                /\ resp' = Response("add_document", "ok", 0, TRUE)
        /\ UNCHANGED <<resource_content, annotation, collection_info,
                       fav_seq, access_record, inflight>>
        /\ UNCHANGED ext

edit_document(doc_id, rawname, rawregion, rawintro) ==
    LET doc == get_document_by_id(document_info, doc_id)
        name == strip(rawname)
        region == strip(rawregion)
        intro == strip(rawintro)
        upd == update_document(document_info, doc_id, name, region, intro)
    IN  /\ IF doc = NoDocument
           THEN /\ resp' = Response("edit_document", "not_found", doc_id, FALSE)
                /\ UNCHANGED document_info
           ELSE IF name = <<>>
           THEN /\ resp' = Response("edit_document", "validation", doc_id, FALSE)
                /\ UNCHANGED document_info
           ELSE IF name_exists_elsewhere(document_info, name, doc_id)
           THEN /\ resp' = Response("edit_document", "conflict", doc_id, FALSE)
                /\ UNCHANGED document_info
           ELSE IF upd.raised
           THEN /\ resp' = Response("edit_document", "error", doc_id, FALSE)
                /\ UNCHANGED document_info
           ELSE /\ document_info' = upd.documents
                /\ resp' = Response("edit_document", "ok", doc_id, TRUE)
        /\ UNCHANGED <<doc_seq, resource_content, annotation, collection_info,
                       fav_seq, access_record, inflight>>
        /\ UNCHANGED ext

delete_document_route(doc_id) ==
    LET del == delete_document(document_info, resource_content, doc_id)
    IN  /\ IF del.raised
           THEN /\ resp' = Response("delete_document_route", "error", doc_id,
                                    FALSE)
                /\ UNCHANGED <<document_info, resource_content>>
           ELSE /\ document_info' = del.documents
                /\ resource_content' = del.resources
                /\ resp' = Response("delete_document_route",
                                    IF del.returned THEN "ok" ELSE "not_found",
                                    doc_id, del.returned)
        /\ UNCHANGED <<doc_seq, annotation, collection_info, fav_seq,
                       access_record, inflight>>
        /\ UNCHANGED ext

\* ------------------------------------------- direct calls of the query layer

CreateDocument(name, region, intro) ==
    LET made == create_document(document_info, doc_seq, name, region, intro)
    IN  /\ doc_seq < MaxDocId
        /\ IF made.raised
           THEN /\ resp' = Response("create_document", "raised", 0, FALSE)
                /\ UNCHANGED <<document_info, doc_seq>>
           ELSE /\ document_info' = made.documents
                /\ doc_seq' = made.seq
                /\ resp' = Response("create_document", "returned",
                                    made.doc.document_id, TRUE)
        /\ UNCHANGED <<resource_content, annotation, collection_info,
                       fav_seq, access_record, inflight>>
        /\ UNCHANGED ext

GetDocumentById(document_id) ==
    LET doc == get_document_by_id(document_info, document_id)
    IN  /\ resp' = Response("get_document_by_id", "returned",
                            doc.document_id, doc # NoDocument)
        /\ UNCHANGED <<tables, inflight>>
        /\ UNCHANGED ext

UpdateDocument(document_id, name, region, intro) ==
    LET upd == update_document(document_info, document_id, name, region, intro)
    IN  /\ IF upd.raised
           THEN /\ resp' = Response("update_document", "raised", 0, FALSE)
                /\ UNCHANGED document_info
           ELSE /\ document_info' = upd.documents
                /\ resp' = Response("update_document", "returned",
                                    upd.doc.document_id, upd.doc # NoDocument)
        /\ UNCHANGED <<doc_seq, resource_content, annotation, collection_info,
                       fav_seq, access_record, inflight>>
        /\ UNCHANGED ext

DeleteDocument(document_id) ==
    LET del == delete_document(document_info, resource_content, document_id)
    IN  /\ IF del.raised
           THEN /\ resp' = Response("delete_document", "raised",
                                    document_id, FALSE)
                /\ UNCHANGED <<document_info, resource_content>>
           ELSE /\ document_info' = del.documents
                /\ resource_content' = del.resources
                /\ resp' = Response("delete_document", "returned",
                                    document_id, del.returned)
        /\ UNCHANGED <<doc_seq, annotation, collection_info, fav_seq,
                       access_record, inflight>>
        /\ UNCHANGED ext

\* Document requests and query-layer calls, served one after the other.
Next ==
    \/ \E n \in FormNames, r \in FormRegions, i \in FormIntros :
         add_document(n, r, i)
    \/ \E d \in DocIds, n \in FormNames, r \in FormRegions, i \in FormIntros :
         edit_document(d, n, r, i)
    \/ \E d \in DocIds : delete_document_route(d)
    \/ \E n \in ArgNames, r \in ArgRegions, i \in ArgIntros :
         CreateDocument(n, r, i)
    \/ \E d \in DocIds : GetDocumentById(d)
    \/ \E d \in DocIds, n \in ArgNames \cup {None}, r \in ArgRegions,
          i \in ArgIntros :
         UpdateDocument(d, n, r, i)
    \/ \E d \in DocIds : DeleteDocument(d)

Spec == Init /\ [][Next]_vars

\* ------------------------------------------------------------ favorites

\* What a browser may put in the resource_id of the toggle URL: the two
\* stored resources and one id that names none.
UrlResourceIds == ResourceIds \cup {3}

\* class Favorite declares no UniqueConstraint on (user_id, resource_id).
favorite_pair_unique == FALSE

\* The rows of collection_info for one (user, resource) pair.
favorites_of(favorites, user_id, resource_id) ==
    { f \in favorites : f.user_id = user_id /\ f.resource_id = resource_id }

\* The existence check of toggle_favorite: the collection_id of the row found
\* (the first one, when there are several), 0 when there is none.
find_favorite(favorites, user_id, resource_id) ==
    LET rows == favorites_of(favorites, user_id, resource_id)
    IN  IF rows = {} THEN 0
        ELSE CHOOSE id \in { f.collection_id : f \in rows } :
               \A f \in rows : id <= f.collection_id

\* The write of toggle_favorite after its check found the row `found`
\* (0: none): insert a row, or delete the row found.  The insert is refused
\* when resource_id names no resource (ForeignKey), and when the table has a
\* unique constraint on the pair and the pair is already there.
write_favorite(favorites, resources, seq, user_id, resource_id, tags, found) ==
    LET row == [collection_id |-> seq + 1, user_id |-> user_id,
                resource_id |-> resource_id, collection_tags |-> tags]
    IN  IF found # 0
        THEN [raised |-> FALSE, favorited |-> FALSE, seq |-> seq,
              favorites |-> { f \in favorites : f.collection_id # found }]
        ELSE IF \/ ~\E r \in resources : r.resource_id = resource_id
                \/ /\ favorite_pair_unique
                   /\ favorites_of(favorites, user_id, resource_id) # {}
        THEN [raised |-> TRUE, favorited |-> FALSE, seq |-> seq,
              favorites |-> favorites]
        ELSE [raised |-> FALSE, favorited |-> TRUE, seq |-> seq + 1,
              favorites |-> favorites \cup {row}]

\* toggle_favorite(session, user_id, resource_id, tags): check, then write.
toggle_favorite(favorites, resources, seq, user_id, resource_id, tags) ==
    write_favorite(favorites, resources, seq, user_id, resource_id, tags,
                   find_favorite(favorites, user_id, resource_id))

\* Mutant: "favorited": success in place of "favorited": favorited.
toggle_response_success(done) ==
    IF done.raised
    THEN Response("toggle_favorite", "error", 500, FALSE)
    ELSE Response("toggle_favorite", "ok", 200, TRUE)

\* The JSON body and status of toggle_favorite_route.
toggle_response(done) ==
    IF done.raised
    THEN Response("toggle_favorite", "error", 500, FALSE)
    ELSE Response("toggle_favorite", "ok", 200, done.favorited)

toggle_favorite_route(user_id, resource_id, tags) ==
    LET done == toggle_favorite(collection_info, resource_content, fav_seq,
                                user_id, resource_id, tags)
    IN  /\ done.seq <= MaxFavId
        /\ collection_info' = done.favorites
        /\ fav_seq' = done.seq
        /\ resp' = toggle_response(done)
        /\ UNCHANGED <<document_info, doc_seq, resource_content, annotation,
                       access_record, inflight>>
        /\ UNCHANGED ext

NextFav ==
    \E u \in UserIds, r \in UrlResourceIds, t \in Tags :
        toggle_favorite_route(u, r, t)

SpecFav == Init /\ [][NextFav]_vars

\* ------------------------------------------------ requests in flight
\* A request in flight holds its own session; what it has read stays in its
\* locals until its write commits.

toggle_check(p, user_id, resource_id, tags) ==
    /\ inflight[p].pc = "idle"
    /\ inflight' = [inflight EXCEPT ![p] =
         [Idle EXCEPT !.pc = "checked", !.op = "toggle_favorite",
                      !.user_id = user_id, !.resource_id = resource_id,
                      !.tags = tags,
                      !.found = find_favorite(collection_info, user_id,
                                              resource_id)]]
    /\ UNCHANGED <<tables, resp>>
    /\ UNCHANGED ext

toggle_write(p) ==
    LET me == inflight[p]
        done == write_favorite(collection_info, resource_content, fav_seq,
                               me.user_id, me.resource_id, me.tags, me.found)
    IN  /\ me.pc = "checked"
        /\ me.op = "toggle_favorite"
        /\ done.seq <= MaxFavId
        /\ collection_info' = done.favorites
        /\ fav_seq' = done.seq
        /\ resp' = toggle_response(done)
        /\ inflight' = [inflight EXCEPT ![p] = Idle]
        /\ UNCHANGED <<document_info, doc_seq, resource_content, annotation,
                       access_record>>
        /\ UNCHANGED ext

NextFavConc ==
    \/ \E p \in Procs, u \in UserIds, r \in ResourceIds, t \in Tags :
         toggle_check(p, u, r, t)
    \/ \E p \in Procs : toggle_write(p)

SpecFavConc == Init /\ [][NextFavConc]_vars

add_document_check(p, rawname, rawregion, rawintro) ==
    LET name == strip(rawname)
    IN  /\ inflight[p].pc = "idle"
        /\ IF name = <<>>
           THEN /\ resp' = Response("add_document", "validation", 0, FALSE)
                /\ UNCHANGED inflight
           ELSE IF name_exists(document_info, name)
           THEN /\ resp' = Response("add_document", "conflict", 0, FALSE)
                /\ UNCHANGED inflight
           ELSE /\ inflight' = [inflight EXCEPT ![p] =
                     [Idle EXCEPT !.pc = "checked", !.op = "add_document",
                                  !.name = name, !.region = strip(rawregion),
                                  !.intro = strip(rawintro)]]
                /\ UNCHANGED resp
        /\ UNCHANGED tables
        /\ UNCHANGED ext

add_document_create(p) ==
    LET me == inflight[p]
        made == create_document(document_info, doc_seq, me.name, me.region,
                                me.intro)
    IN  /\ me.pc = "checked"
        /\ me.op = "add_document"
        /\ IF made.raised
           THEN /\ resp' = Response("add_document", "error", p, FALSE)
                /\ UNCHANGED <<document_info, doc_seq>>
           ELSE /\ doc_seq < MaxDocId
                /\ document_info' = made.documents
                /\ doc_seq' = made.seq
                /\ resp' = Response("add_document", "ok", p, TRUE)
        /\ inflight' = [inflight EXCEPT ![p] = Idle]
        /\ UNCHANGED <<resource_content, annotation, collection_info,
                       fav_seq, access_record>>
        /\ UNCHANGED ext

NextAddConc ==
    \/ \E p \in Procs, n \in FormNames, r \in FormRegions, i \in FormIntros :
         add_document_check(p, n, r, i)
    \/ \E p \in Procs : add_document_create(p)
    \/ \E d \in DocIds : delete_document_route(d)

SpecAddConc == Init /\ [][NextAddConc]_vars

\* ---------------------------------------------------------------- notes

\* What a browser may send in the content field of the note forms.
FormContents == { <<" ">>, <<"m", " ">> }

\* The resource_id field a note form may carry: none (0), the id of a
\* resource, the id of no resource.
NoteResourceIds == { 0, 1, 3 }

NoteIds == 1..MaxNoteId

\* The database session's time zone, as NOW() minus datetime.utcnow() in
\* ticks.  The application fixes neither the host's nor the session's zone.
TzOffsets == { -1, 0, 1 }

\* session.query(Note).get(note_id) finding nothing.
NoNote ==
    [annotation_id |-> 0, user_id |-> 0, resource_id |-> 0,
     annotation_content |-> None, annotation_tags |-> None,
     annotation_time |-> 0, update_time |-> 0]

get_note(annotations, note_id) ==
    IF \E n \in annotations : n.annotation_id = note_id
    THEN CHOOSE n \in annotations : n.annotation_id = note_id
    ELSE NoNote

\* trg_annotation_before_insert: a missing annotation_time becomes NOW(),
\* and update_time becomes annotation_time.
trg_annotation_before_insert(row, time) ==
    LET created == IF row.annotation_time \notin Int THEN time.local
                   ELSE row.annotation_time
    IN  [row EXCEPT !.annotation_time = created, !.update_time = created]

\* trg_annotation_before_update: update_time becomes NOW().
trg_annotation_before_update(row, time) ==
    [row EXCEPT !.update_time = time.local]

\* A new Note as the ORM sends it to the database: annotation_time and
\* update_time take their column default, datetime.utcnow().
new_note(id, user_id, resource_id, content, tags, time) ==
    [annotation_id |-> id, user_id |-> user_id, resource_id |-> resource_id,
     annotation_content |-> content, annotation_tags |-> tags,
     annotation_time |-> time.utc, update_time |-> time.utc]

\* create_note(session, user_id, resource_id, content, tags): insert and
\* commit.  The insert is refused when resource_id names no resource.
create_note(annotations, resources, seq, user_id, resource_id, content, tags, time) ==
    LET row == trg_annotation_before_insert(
                   new_note(seq + 1, user_id, resource_id, content, tags,
                            time), time)
    IN  IF ~\E r \in resources : r.resource_id = resource_id
        THEN [raised |-> TRUE, annotations |-> annotations, seq |-> seq]
        ELSE [raised |-> FALSE, annotations |-> annotations \cup {row},
              seq |-> seq + 1]

\* update_note(session, note_id, content, tags): the note's content and tags
\* are replaced and the row is updated.
update_note(annotations, note_id, content, tags, time) ==
    LET old == get_note(annotations, note_id)
        new == trg_annotation_before_update(
                   [old EXCEPT !.annotation_content = content,
                               !.annotation_tags = tags], time)
    IN  IF old = NoNote THEN annotations
        ELSE (annotations \ {old}) \cup {new}

\* delete_note(session, note_id): the row is deleted.
delete_note(annotations, note_id) ==
    { n \in annotations : n.annotation_id # note_id }

\* Mutant: "if not note:" alone, without the comparison of user ids.
note_denied_if_missing(note, user_id) == note = NoNote

\* "if not note or note.user_id != current_user.user_id"
note_denied(note, user_id) ==
    note = NoNote \/ note.user_id # user_id

\* Mutant: a 404 of its own for a note that does not exist.
denied_response_with_404(op, note, user_id) ==
    IF note = NoNote
    THEN Response(op, "404", user_id, FALSE)
    ELSE Response(op, "403", user_id, FALSE)

\* jsonify({"ok": False, "msg": "笔记不存在或无操作权限"}), 403
denied_response(op, note, user_id) ==
    Response(op, "403", user_id, FALSE)

\* The note handlers answer with JSON; the response records the HTTP status
\* and, in its id, the logged-in user the answer goes to.
add_note(user_id, resource_id, rawcontent, rawtags) ==
    LET content == strip(rawcontent)
        made == create_note(annotation, resource_content, note_seq, user_id,
                            resource_id, content, strip(rawtags), clock)
    IN  /\ IF resource_id = 0 \/ content = <<>>
           THEN /\ resp' = Response("add_note", "400", user_id, FALSE)
                /\ UNCHANGED <<annotation, note_seq>>
           ELSE IF made.raised
           THEN /\ resp' = Response("add_note", "500", user_id, FALSE)
                /\ UNCHANGED <<annotation, note_seq>>
           ELSE /\ note_seq < MaxNoteId
                /\ annotation' = made.annotations
                /\ note_seq' = made.seq
                /\ resp' = Response("add_note", "200", user_id, TRUE)
        /\ UNCHANGED <<document_info, doc_seq, resource_content,
                       collection_info, fav_seq, access_record, inflight,
                       user_info, clock, results, sessions>>

edit_note(user_id, note_id, rawcontent, rawtags) ==
    LET content == strip(rawcontent)
        note == get_note(annotation, note_id)
    IN  /\ IF content = <<>>
           THEN /\ resp' = Response("edit_note", "400", user_id, FALSE)
                /\ UNCHANGED annotation
           ELSE IF note_denied(note, user_id)
           THEN /\ resp' = denied_response("edit_note", note, user_id)
                /\ UNCHANGED annotation
           ELSE /\ annotation' = update_note(annotation, note_id, content,
                                             strip(rawtags), clock)
                /\ resp' = Response("edit_note", "200", user_id, TRUE)
        /\ UNCHANGED <<document_info, doc_seq, resource_content,
                       collection_info, fav_seq, access_record, inflight,
                       user_info, note_seq, clock, results, sessions>>

remove_note(user_id, note_id) ==
    LET note == get_note(annotation, note_id)
    IN  /\ IF note_denied(note, user_id)
           THEN /\ resp' = denied_response("remove_note", note, user_id)
                /\ UNCHANGED annotation
           ELSE /\ annotation' = delete_note(annotation, note_id)
                /\ resp' = Response("remove_note", "200", user_id, TRUE)
        /\ UNCHANGED <<document_info, doc_seq, resource_content,
                       collection_info, fav_seq, access_record, inflight,
                       user_info, note_seq, clock, results, sessions>>

\* Time passes, for datetime.utcnow() and for NOW() alike.
Tick ==
    /\ clock.utc < MaxClock
    /\ clock' = [utc |-> clock.utc + 1, local |-> clock.local + 1]
    /\ UNCHANGED <<tables, inflight, resp, user_info, note_seq, results,
                   sessions>>

NextNote ==
    \/ \E u \in UserIds, r \in NoteResourceIds, c \in FormContents,
          t \in Tags :
         add_note(u, r, c, t)
    \/ \E u \in UserIds, n \in NoteIds, c \in FormContents, t \in Tags :
         edit_note(u, n, c, t)
    \/ \E u \in UserIds, n \in NoteIds : remove_note(u, n)

\* The note handlers, called one after another, at one moment.
SpecNote == Init /\ [][NextNote]_vars

InitNoteTime ==
    /\ InitCommon
    /\ resource_content = SeedResources
    /\ \E off \in TzOffsets : clock = [utc |-> 1, local |-> 1 + off]

NextNoteTime == NextNote \/ Tick

\* The note handlers as time passes, in any time zone of the session.
SpecNoteTime == InitNoteTime /\ [][NextNoteTime]_vars

\* ------------------------------------------------------- reading progress

\* What a browser may send in the progress field: "150", "-10", "50", "x",
\* or no field at all.
FormProgress ==
    { <<"1", "5", "0">>, <<"-", "1", "0">>, <<"5", "0">>, <<"x">>, None }

DigitValue ==
    [c \in { "0", "1", "2", "3", "4", "5", "6", "7", "8", "9" } |->
       CASE c = "0" -> 0 [] c = "1" -> 1 [] c = "2" -> 2 [] c = "3" -> 3
         [] c = "4" -> 4 [] c = "5" -> 5 [] c = "6" -> 6 [] c = "7" -> 7
         [] c = "8" -> 8 [] c = "9" -> 9]

RECURSIVE digits_value(_)
digits_value(s) ==
    IF s = <<>> THEN 0
    ELSE 10 * digits_value(SubSeq(s, 1, Len(s) - 1)) + DigitValue[s[Len(s)]]

\* int(text): blanks around are dropped, one sign may lead, decimal digits
\* follow; anything else raises ValueError.
int(text) ==
    LET s == strip(text)
        signed == s # <<>> /\ s[1] \in { "-", "+" }
        body == IF signed THEN Tail(s) ELSE s
    IN  IF body = <<>> \/ \E i \in 1..Len(body) : body[i] \notin DOMAIN DigitValue
        THEN [raised |-> TRUE, value |-> 0]
        ELSE [raised |-> FALSE,
              value |-> IF s[1] = "-" THEN 0 - digits_value(body)
                        ELSE digits_value(body)]

\* int(request.form.get("progress", 0))
form_progress(raw) ==
    IF raw = None THEN [raised |-> FALSE, value |-> 0] ELSE int(raw)

max(a, b) == IF a >= b THEN a ELSE b

min(a, b) == IF a <= b THEN a ELSE b

\* Mutant: the upper limit alone.
clamp_without_floor(progress) == min(100, progress)

\* progress = max(0, min(100, progress))
clamp(progress) == max(0, min(100, progress))

find_access_record(records, user_id, resource_id) ==
    { a \in records : a.user_id = user_id /\ a.resource_id = resource_id }

next_access_id(records) ==
    IF records = {} THEN 1
    ELSE (CHOOSE i \in { a.access_id : a \in records } :
            \A a \in records : a.access_id <= i) + 1

\* Mutant: a new row for every call.
create_access_record_always_insert(records, resources, user_id, resource_id, progress, time) ==
    IF ~\E r \in resources : r.resource_id = resource_id
    THEN [raised |-> TRUE, records |-> records]
    ELSE [raised |-> FALSE,
          records |-> records \cup
            { [access_id |-> next_access_id(records), user_id |-> user_id,
               resource_id |-> resource_id, read_progress |-> progress,
               access_time |-> time.utc] }]

\* create_access_record(session, user_id, resource_id, progress): the record
\* of the pair is looked up; it is given the progress and the time, or a new
\* record is inserted.  The insert is refused when resource_id names no
\* resource.
create_access_record(records, resources, user_id, resource_id, progress, time) ==
    LET found == find_access_record(records, user_id, resource_id)
    IN  IF found # {}
        THEN [raised |-> FALSE,
              records |-> (records \ found) \cup
                { [a EXCEPT !.read_progress = progress,
                            !.access_time = time.utc] : a \in found }]
        ELSE IF ~\E r \in resources : r.resource_id = resource_id
        THEN [raised |-> TRUE, records |-> records]
        ELSE [raised |-> FALSE,
              records |-> records \cup
                { [access_id |-> next_access_id(records), user_id |-> user_id,
                   resource_id |-> resource_id, read_progress |-> progress,
                   access_time |-> time.utc] }]

record_read_progress(user_id, resource_id, raw) ==
    LET parsed == form_progress(raw)
        progress == clamp(parsed.value)
        made == create_access_record(access_record, resource_content, user_id,
                                     resource_id, progress, clock)
    IN  /\ IF parsed.raised
           THEN /\ resp' = Response("record_read_progress", "400", user_id,
                                    FALSE)
                /\ UNCHANGED access_record
           ELSE IF made.raised
           THEN /\ resp' = Response("record_read_progress", "500", user_id,
                                    FALSE)
                /\ UNCHANGED access_record
           ELSE /\ Cardinality(made.records) <= MaxAccessId
                /\ access_record' = made.records
                /\ resp' = Response("record_read_progress", "200", user_id,
                                    TRUE)
        /\ UNCHANGED <<document_info, doc_seq, resource_content, annotation,
                       collection_info, fav_seq, inflight, ext>>

NextAccess ==
    \E u \in UserIds, r \in UrlResourceIds, f \in FormProgress :
      record_read_progress(u, r, f)

\* The record-progress handler, called again and again.
SpecAccess == Init /\ [][NextAccess]_vars

\* ----------------------------------------------------------------- search

\* The keywords a caller may search for.
ArgKeywords == { <<"a">>, <<"c">>, <<"a", " ", "z">>, <<"_">>, <<"z">> }

\* What a browser may send in the keyword argument of /search.
UrlKeywords == { <<" ">>, <<"a", " ">>, <<"c">> }

\* The texts a column of resource 1 may hold.
SearchTexts == { None, <<"A", "b">>, <<"a", " ", "c">>, <<"a", "b">> }

\* Lower case, as the case-insensitive comparisons of ILIKE and of the
\* collation see a character.
lower_char(c) ==
    CASE c = "A" -> "a" [] c = "B" -> "b" [] c = "C" -> "c" [] OTHER -> c

lower(text) == [i \in 1..Len(text) |-> lower_char(text[i])]

\* text LIKE pattern: % stands for any run of characters, _ for any one.
RECURSIVE like(_, _)
like(text, pattern) ==
    IF pattern = <<>> THEN text = <<>>
    ELSE IF pattern[1] = "%"
    THEN \E k \in 0..Len(text) :
           like(SubSeq(text, k + 1, Len(text)), Tail(pattern))
    ELSE /\ text # <<>>
         /\ pattern[1] = "_" \/ pattern[1] = text[1]
         /\ like(Tail(text), Tail(pattern))

\* column.ilike(pattern): NULL matches nothing.
ilike(column, pattern) ==
    column # None /\ like(lower(column), lower(pattern))

\* Mutant: simplified_text alone.
search_transcription_by_keyword_simplified_only(resources, keyword) ==
    LET pattern == <<"%">> \o keyword \o <<"%">>
    IN  { r \in resources : ilike(r.simplified_text, pattern) }

search_transcription_by_keyword(resources, keyword) ==
    LET pattern == <<"%">> \o keyword \o <<"%">>
    IN  { r \in resources :
            \/ ilike(r.simplified_text, pattern)
            \/ ilike(r.vernacular_translation, pattern) }

\* The words the FULLTEXT parser cuts a text into: the runs between blanks.
words(text) ==
    IF text = None THEN {}
    ELSE { SubSeq(lower(text), q[1], q[2]) :
             q \in { p \in (1..Len(text)) \X (1..Len(text)) :
                       /\ p[1] <= p[2]
                       /\ \A i \in p[1]..p[2] : text[i] # " "
                       /\ p[1] = 1 \/ text[p[1] - 1] = " "
                       /\ p[2] = Len(text) \/ text[p[2] + 1] = " " } }

\* MATCH(original_text, simplified_text, vernacular_translation)
\* AGAINST (:kw IN NATURAL LANGUAGE MODE): a row matches when a word of the
\* keyword is a word of one of the three columns.
match_against(r, keyword) ==
    words(keyword) \cap
      (words(r.original_text) \cup words(r.simplified_text)
         \cup words(r.vernacular_translation)) # {}

fulltext_search_resources(resources, keyword) ==
    LET resource_ids == { r.resource_id : r \in { x \in resources :
                                                   match_against(x, keyword) } }
    IN  IF resource_ids = {} THEN {}
        ELSE { r \in resources : r.resource_id \in resource_ids }

\* The /search page: the ids of the entries it lists.
search(rawkeyword) ==
    LET keyword == strip(rawkeyword)
    IN  /\ results' = IF keyword # <<>>
                      THEN { r.resource_id :
                               r \in fulltext_search_resources(resource_content,
                                                               keyword) }
                      ELSE {}
        /\ resp' = Response("search", "200", 0, keyword # <<>>)
        /\ UNCHANGED <<tables, inflight, user_info, note_seq, clock, sessions>>

FulltextSearchResources(keyword) ==
    /\ results' = { r.resource_id :
                      r \in fulltext_search_resources(resource_content, keyword) }
    /\ resp' = Response("fulltext_search_resources", "returned", 0, FALSE)
    /\ UNCHANGED <<tables, inflight, user_info, note_seq, clock, sessions>>

SearchTranscriptionByKeyword(keyword) ==
    /\ results' = { r.resource_id :
                      r \in search_transcription_by_keyword(resource_content,
                                                            keyword) }
    /\ resp' = Response("search_transcription_by_keyword", "returned", 0, FALSE)
    /\ UNCHANGED <<tables, inflight, user_info, note_seq, clock, sessions>>

\* Resource 1 holds any of the texts in each of its three columns.
InitSearch ==
    /\ InitCommon
    /\ clock = [utc |-> 1, local |-> 1]
    /\ \E o \in SearchTexts, s \in SearchTexts, v \in SearchTexts :
         resource_content =
           { IF r.resource_id = 1
             THEN [r EXCEPT !.original_text = o, !.simplified_text = s,
                            !.vernacular_translation = v]
             ELSE r : r \in SeedResources }

NextSearch ==
    \/ \E k \in UrlKeywords : search(k)
    \/ \E k \in ArgKeywords : FulltextSearchResources(k)
    \/ \E k \in ArgKeywords : SearchTranscriptionByKeyword(k)

\* The two searches over any texts of resource 1.
SpecSearch == InitSearch /\ [][NextSearch]_vars

\* ------------------------------------------------------------ registration

\* What a browser may send in the fields of the registration form.
FormUsernames == { <<" ">>, <<"u">>, <<"w", " ">>, <<"y">> }

FormEmails == { <<" ">>, <<"e">>, <<"g">>, <<"h">> }

FormPasswords == { <<"p">>, <<"p", "a", "s", "s", "w", "d">> }

FormPasswords2 == { <<"q">>, <<"p", "a", "s", "s", "w", "d">> }

\* unique=True on User.username and on User.user_email.
username_unique == TRUE

\* Mutant: user_email without its unique index.
user_email_not_unique == FALSE

user_email_unique == TRUE

\* session.query(User).filter(User.username == username).first()
username_exists(users, username) ==
    \E x \in users : x.username = username

\* session.query(User).filter(User.user_email == email).first()
email_exists(users, email) ==
    \E x \in users : x.user_email = email

next_user_id(users) ==
    IF users = {} THEN 1
    ELSE (CHOOSE i \in { x.user_id : x \in users } :
            \A x \in users : x.user_id <= i) + 1

\* session.add(new_user); session.commit(): the insert is refused when it
\* would break a unique index.
insert_user(users, username, email) ==
    IF \/ username_unique /\ \E x \in users : x.username = username
       \/ user_email_unique /\ \E x \in users : x.user_email = email
    THEN [raised |-> TRUE, users |-> users]
    ELSE [raised |-> FALSE,
          users |-> users \cup { [user_id |-> next_user_id(users),
                                  username |-> username,
                                  user_email |-> email] }]

\* register, from the form up to and with the two look-ups.  The slot keeps
\* the username in name and the email in region.
register_check(p, rawusername, rawemail, rawpassword, rawpassword2) ==
    LET username == strip(rawusername)
        email == strip(rawemail)
        password == strip(rawpassword)
        password2 == strip(rawpassword2)
    IN  /\ inflight[p].pc = "idle"
        /\ IF username = <<>> \/ email = <<>> \/ password = <<>>
           THEN /\ resp' = Response("register", "blank", p, FALSE)
                /\ UNCHANGED inflight
           ELSE IF password # password2
           THEN /\ resp' = Response("register", "mismatch", p, FALSE)
                /\ UNCHANGED inflight
           ELSE IF Len(password) < 6
           THEN /\ resp' = Response("register", "short", p, FALSE)
                /\ UNCHANGED inflight
           ELSE IF username_exists(user_info, username)
           THEN /\ resp' = Response("register", "username_exists", p, FALSE)
                /\ UNCHANGED inflight
           ELSE IF email_exists(user_info, email)
           THEN /\ resp' = Response("register", "email_exists", p, FALSE)
                /\ UNCHANGED inflight
           ELSE /\ inflight' = [inflight EXCEPT ![p] =
                     [Idle EXCEPT !.pc = "checked", !.op = "register",
                                  !.name = username, !.region = email]]
                /\ resp' = Response("register", "checked", p, FALSE)
        /\ UNCHANGED <<tables, user_info, note_seq, clock, results, sessions>>

\* register, from session.add to the end.
register_create(p) ==
    LET me == inflight[p]
        made == insert_user(user_info, me.name, me.region)
    IN  /\ me.pc = "checked"
        /\ me.op = "register"
        /\ IF made.raised
           THEN /\ resp' = Response("register", "failed", p, FALSE)
                /\ UNCHANGED user_info
           ELSE /\ Cardinality(user_info) < MaxUserId
                /\ user_info' = made.users
                /\ resp' = Response("register", "registered", p, TRUE)
        /\ inflight' = [inflight EXCEPT ![p] = Idle]
        /\ UNCHANGED <<tables, note_seq, clock, results, sessions>>

NextRegister ==
    \/ \E p \in Procs, n \in FormUsernames, e \in FormEmails,
          w \in FormPasswords, v \in FormPasswords2 :
         register_check(p, n, e, w, v)
    \/ \E p \in Procs : register_create(p)

\* Registration requests, at most MaxProcs of them in flight at a time.
SpecRegister == Init /\ [][NextRegister]_vars

\* ------------------------------------------------- sessions and commits

\* What a browser may send in the name field, where requests are followed
\* step by step.
StepNames == { <<" ">>, <<"a">>, <<"b", " ">> }

\* The new names and regions a caller of update_document may pass.
TxNames == { None, <<"b">> }

TxRegions == { None, <<"y">> }

\* SessionLocal(): a session no request has had before.
get_session(s, p) ==
    [s EXCEPT !.made = s.made + 1,
              !.open = s.open \cup { s.made + 1 },
              !.held = [s.held EXCEPT ![p] = s.made + 1]]

\* Mutant: the session is dropped without being closed.
session_close_forgotten(s, p) ==
    [s EXCEPT !.held = [s.held EXCEPT ![p] = 0]]

\* finally: session.close()
session_close(s, p) ==
    [s EXCEPT !.open = s.open \ { s.held[p] },
              !.held = [s.held EXCEPT ![p] = 0]]

\* Mutant: a failed commit leaves what was flushed.
commit_without_rollback(ok, pending, before) ==
    IF ok THEN pending ELSE [pending EXCEPT !.raised = TRUE]

\* session.commit(): the flushed changes become the stored state, or the
\* commit fails, the transaction is rolled back and the call raises.
commit(ok, pending, before) ==
    IF ok THEN pending ELSE [before EXCEPT !.raised = TRUE]

\* create_document with a commit that may fail.
create_document_commit(documents, seq, name, region, intro, ok) ==
    LET made == create_document(documents, seq, name, region, intro)
    IN  IF made.raised THEN made
        ELSE commit(ok, made, [raised |-> FALSE, documents |-> documents,
                               seq |-> seq, doc |-> NoDocument])

\* update_document with a commit that may fail.
update_document_commit(documents, document_id, name, region, intro, ok) ==
    LET made == update_document(documents, document_id, name, region, intro)
    IN  IF made.raised \/ made.doc = NoDocument THEN made
        ELSE commit(ok, made, [raised |-> FALSE, documents |-> documents,
                               doc |-> NoDocument])

\* delete_document with a commit that may fail.
delete_document_commit(documents, resources, document_id, ok) ==
    LET made == delete_document(documents, resources, document_id)
    IN  IF made.raised \/ ~made.returned THEN made
        ELSE commit(ok, made, [raised |-> FALSE, returned |-> FALSE,
                               documents |-> documents,
                               resources |-> resources])

\* add_document, from the form to get_session().
add_document_open(p, rawname) ==
    LET name == strip(rawname)
    IN  /\ inflight[p].pc = "idle"
        /\ IF name = <<>>
           THEN /\ resp' = Response("add_document", "validation", p, FALSE)
                /\ UNCHANGED <<inflight, sessions>>
           ELSE /\ sessions.made < MaxSessions
                /\ sessions' = get_session(sessions, p)
                /\ inflight' = [inflight EXCEPT ![p] =
                     [Idle EXCEPT !.pc = "opened", !.op = "add_document",
                                  !.name = name]]
                /\ resp' = Response("add_document", "opened", p, FALSE)
        /\ UNCHANGED <<tables, user_info, note_seq, clock, results>>

\* add_document, the look-up of the name: a return inside try.
add_document_query(p) ==
    /\ inflight[p].pc = "opened"
    /\ inflight' = [inflight EXCEPT ![p].pc =
                      IF name_exists(document_info, inflight[p].name)
                      THEN "return_conflict" ELSE "checked"]
    /\ resp' = Response("add_document", "queried", p, FALSE)
    /\ UNCHANGED <<tables, user_info, note_seq, clock, results, sessions>>

\* add_document, the call of create_document: it returns or it raises.
add_document_commit(p, ok) ==
    LET me == inflight[p]
        made == create_document_commit(document_info, doc_seq, me.name,
                                       me.region, me.intro, ok)
    IN  /\ me.pc = "checked"
        /\ document_info' = made.documents
        /\ doc_seq' = made.seq
        /\ inflight' = [inflight EXCEPT ![p].pc =
                          IF made.raised THEN "except" ELSE "return_ok"]
        /\ resp' = Response("add_document", "committed", p, ~made.raised)
        /\ UNCHANGED <<resource_content, annotation, collection_info, fav_seq,
                       access_record, user_info, note_seq, clock, results,
                       sessions>>

\* add_document, the finally clause and the answer.
add_document_finally(p) ==
    LET me == inflight[p]
    IN  /\ me.pc \in { "return_conflict", "return_ok", "except" }
        /\ sessions' = session_close(sessions, p)
        /\ resp' = Response("add_document",
                            CASE me.pc = "return_conflict" -> "conflict"
                              [] me.pc = "return_ok" -> "ok"
                              [] me.pc = "except" -> "error",
                            p, me.pc = "return_ok")
        /\ inflight' = [inflight EXCEPT ![p] = Idle]
        /\ UNCHANGED <<tables, user_info, note_seq, clock, results>>

UpdateDocumentCommit(document_id, name, region, ok) ==
    LET made == update_document_commit(document_info, document_id, name,
                                       region, None, ok)
    IN  /\ document_info' = made.documents
        /\ resp' = Response("update_document",
                            IF made.raised THEN "raised" ELSE "returned",
                            document_id, made.doc # NoDocument)
        /\ UNCHANGED <<doc_seq, resource_content, annotation, collection_info,
                       fav_seq, access_record, inflight, ext>>

DeleteDocumentCommit(document_id, ok) ==
    LET made == delete_document_commit(document_info, resource_content,
                                       document_id, ok)
    IN  /\ document_info' = made.documents
        /\ resource_content' = made.resources
        /\ resp' = Response("delete_document",
                            IF made.raised THEN "raised" ELSE "returned",
                            document_id, made.returned)
        /\ UNCHANGED <<doc_seq, annotation, collection_info, fav_seq,
                       access_record, inflight, ext>>

CreateDocumentCommit(name, region, intro, ok) ==
    LET made == create_document_commit(document_info, doc_seq, name, region,
                                       intro, ok)
    IN  /\ doc_seq < MaxDocId
        /\ document_info' = made.documents
        /\ doc_seq' = made.seq
        /\ resp' = Response("create_document",
                            IF made.raised THEN "raised" ELSE "returned",
                            made.doc.document_id, ~made.raised)
        /\ UNCHANGED <<resource_content, annotation, collection_info, fav_seq,
                       access_record, inflight, ext>>

StepOf(p) ==
    \/ add_document_query(p)
    \/ \E ok \in BOOLEAN : add_document_commit(p, ok)
    \/ add_document_finally(p)

NextSession ==
    \/ \E p \in Procs, n \in StepNames : add_document_open(p, n)
    \/ \E p \in Procs : add_document_query(p)
    \/ \E p \in Procs, ok \in BOOLEAN : add_document_commit(p, ok)
    \/ \E p \in Procs : add_document_finally(p)

\* add_document step by step, with commits that may fail; a request that has
\* its session goes on to its next step.
SpecSession ==
    /\ Init
    /\ [][NextSession]_vars
    /\ \A p \in Procs : WF_vars(StepOf(p))

NextCommit ==
    \/ \E n \in StepNames : add_document_open(1, n)
    \/ add_document_query(1)
    \/ \E ok \in BOOLEAN : add_document_commit(1, ok)
    \/ add_document_finally(1)
    \/ \E n \in ArgNames, r \in TxRegions, ok \in BOOLEAN :
         CreateDocumentCommit(n, r, None, ok)
    \/ \E d \in DocIds, n \in TxNames, r \in TxRegions, ok \in BOOLEAN :
         UpdateDocumentCommit(d, n, r, ok)
    \/ \E d \in DocIds, ok \in BOOLEAN : DeleteDocumentCommit(d, ok)

\* One request after another, and direct calls, with commits that may fail.
SpecCommit == Init /\ [][NextCommit]_vars

\* ================================================================= claims

Stored(documents, document_id) ==
    \E d \in documents : d.document_id = document_id

UniqueNames ==
    \A d1, d2 \in document_info :
        d1.document_name = d2.document_name => d1 = d2

\* C1: under any interleaving of toggle-favorite requests, each doing its
\* existence check and its write as separate steps, no (user, resource) pair
\* ever has two or more rows in collection_info.
C1_AtMostOneFavoritePerPair ==
    \A u \in UserIds, r \in ResourceIds :
        Cardinality(favorites_of(collection_info, u, r)) <= 1

\* C2: a toggle served alone on a pair without a row inserts exactly one row
\* and answers favorited = true; on a pair with a row it deletes the row and
\* answers favorited = false; either way the pair's favorited state is
\* inverted and no other pair is touched, so two toggles in a row restore it.
C2_ToggleInsertsOrDeletes ==
    [][ \A u \in UserIds, r \in ResourceIds, t \in Tags :
          (resp'.op = "toggle_favorite" /\ toggle_favorite_route(u, r, t)) =>
            LET before == favorites_of(collection_info, u, r)
                after == favorites_of(collection_info', u, r)
            IN  /\ resp'.status = "ok"
                /\ before = {} =>
                     /\ Cardinality(after) = 1
                     /\ resp'.flag = TRUE
                /\ before # {} =>
                     /\ after = {}
                     /\ resp'.flag = FALSE
                /\ (after # {}) = (before = {})
                /\ collection_info' \ after = collection_info \ before
      ]_vars

\* A toggle has just removed a favorite that an earlier toggle had inserted.
C2_Witness ==
    /\ resp.op = "toggle_favorite"
    /\ resp.status = "ok"
    /\ resp.flag = FALSE
    /\ fav_seq >= 1

\* C3: deleting a stored document removes it, leaves no resource with its
\* document_id and no note, favorite or access record on such a resource; and
\* every resource's document_id names a stored document.
C3_DeleteCascades ==
    /\ [](\A r \in resource_content : Stored(document_info, r.document_id))
    /\ [][ \A d \in DocIds :
             ( /\ resp'.op = "delete_document_route"
               /\ resp'.id = d
               /\ Stored(document_info, d)
               /\ delete_document_route(d) ) =>
               LET gone == { r.resource_id : r \in
                               { x \in resource_content : x.document_id = d } }
               IN  /\ ~Stored(document_info', d)
                   /\ \A r \in resource_content' : r.document_id # d
                   /\ \A n \in annotation' : n.resource_id \notin gone
                   /\ \A f \in collection_info' : f.resource_id \notin gone
                   /\ \A a \in access_record' : a.resource_id \notin gone
         ]_vars

\* C4: an add-document request whose name is already stored is answered
\* with the conflict message and stores nothing; no two stored documents
\* ever share a name.
C4_DuplicateNameConflict ==
    /\ []UniqueNames
    /\ [][ \A n \in FormNames, r \in FormRegions, i \in FormIntros :
             ( /\ resp'.op = "add_document"
               /\ \E d \in document_info : d.document_name = strip(n)
               /\ add_document(n, r, i) ) =>
               /\ resp'.status = "conflict"
               /\ document_info' = document_info
               /\ doc_seq' = doc_seq
         ]_vars

\* An add-document request has just been refused for its name.
C4_Witness ==
    /\ resp.op = "add_document"
    /\ resp.status = "conflict"

\* C5: when an add-document request that passed the name check reaches its
\* insert after another request stored the same name, the insert is refused,
\* the request ends with the one error response and nothing is stored; no
\* two stored documents ever share a name.
C5_RacingInsertRefused ==
    /\ [](\A d1, d2 \in document_info :
            d1.document_id # d2.document_id =>
              d1.document_name # d2.document_name)
    /\ [][ \A p \in Procs :
             ( /\ resp'.id = p
               /\ \E d \in document_info :
                    d.document_name = inflight[p].name
               /\ add_document_create(p) ) =>
               /\ resp'.status = "error"
               /\ document_info' = document_info
         ]_vars

\* A request lost the race: its insert was refused after its check passed.
C5_Witness ==
    /\ resp.op = "add_document"
    /\ resp.status = "error"

\* C6: the document create_document returns is found by get_document_by_id
\* under the returned id with the name, region and intro that were supplied.
C6_CreateThenGet ==
    [][ \A n \in ArgNames, r \in ArgRegions, i \in ArgIntros :
          ( /\ resp'.op = "create_document"
            /\ resp'.status = "returned"
            /\ CreateDocument(n, r, i) ) =>
            LET got == get_document_by_id(document_info', resp'.id)
            IN  /\ resp'.id # 0
                /\ ~Stored(document_info, resp'.id)
                /\ got.document_id = resp'.id
                /\ got.document_name = n
                /\ got.document_region = r
                /\ got.document_intro = i
      ]_vars

\* create_document has just returned a document with a region and an intro.
C6_Witness ==
    /\ resp.op = "create_document"
    /\ resp.status = "returned"
    /\ \E d \in document_info :
         /\ d.document_id = resp.id
         /\ d.document_region = <<"x">>
         /\ d.document_intro = <<"y">>

\* C7: update_document leaves every field whose argument is None as it was,
\* gives every other field its argument when it succeeds, and leaves every
\* other document as it was.
C7_UpdateOnlySupplied ==
    [][ \A d \in DocIds, n \in ArgNames \cup {None}, r \in ArgRegions,
           i \in ArgIntros :
          ( /\ resp'.op = "update_document"
            /\ Stored(document_info, d)
            /\ UpdateDocument(d, n, r, i) ) =>
            LET old == get_document_by_id(document_info, d)
                new == get_document_by_id(document_info', d)
            IN  /\ new.document_id = d
                /\ n = None => new.document_name = old.document_name
                /\ r = None => new.document_region = old.document_region
                /\ i = None => new.document_intro = old.document_intro
                /\ resp'.status = "returned" =>
                     /\ n # None => new.document_name = n
                     /\ r # None => new.document_region = r
                     /\ i # None => new.document_intro = i
                /\ document_info' \ {new} = document_info \ {old}
      ]_vars

\* update_document has renamed the seeded document and its intro, never
\* supplied, is still the seed's.
C7_Witness ==
    /\ resp.op = "update_document"
    /\ resp.flag = TRUE
    /\ \E d \in document_info :
         /\ d.document_id = resp.id
         /\ d.document_id = 1
         /\ d.document_name = <<"b">>
         /\ d.document_intro = None

\* C8: an edit that renames a document to a name another document holds is
\* refused and changes nothing; an edit that keeps the document's own name
\* succeeds.
C8_EditUniqueExcludingSelf ==
    [][ \A d \in DocIds, n \in FormNames, r \in FormRegions, i \in FormIntros :
          ( /\ resp'.op = "edit_document"
            /\ resp'.id = d
            /\ Stored(document_info, d)
            /\ strip(n) # <<>>
            /\ edit_document(d, n, r, i) ) =>
            LET old == get_document_by_id(document_info, d)
                new == get_document_by_id(document_info', d)
            IN  /\ (\E o \in document_info :
                       /\ o.document_id # d
                       /\ o.document_name = strip(n)) =>
                     /\ resp'.status = "conflict"
                     /\ document_info' = document_info
                /\ old.document_name = strip(n) =>
                     /\ resp'.status = "ok"
                     /\ new.document_name = strip(n)
                     /\ new.document_region = strip(r)
                     /\ new.document_intro = strip(i)
      ]_vars

\* An edit has just been refused because another document holds the name.
C8_Witness ==
    /\ resp.op = "edit_document"
    /\ resp.status = "conflict"
    /\ Cardinality(document_info) >= 2

\* C9: an update of an id that is not stored changes no document:
\* update_document returns None and the edit handler answers not found.
C9_UpdateMissingNotFound ==
    [][ /\ \A d \in DocIds, n \in ArgNames \cup {None}, r \in ArgRegions,
              i \in ArgIntros :
             ( /\ resp'.op = "update_document"
               /\ ~Stored(document_info, d)
               /\ UpdateDocument(d, n, r, i) ) =>
               /\ resp'.status = "returned"
               /\ resp'.flag = FALSE
               /\ resp'.id = 0
               /\ document_info' = document_info
        /\ \A d \in DocIds, n \in FormNames, r \in FormRegions,
              i \in FormIntros :
             ( /\ resp'.op = "edit_document"
               /\ resp'.id = d
               /\ ~Stored(document_info, d)
               /\ edit_document(d, n, r, i) ) =>
               /\ resp'.status = "not_found"
               /\ document_info' = document_info
      ]_vars

\* update_document has just returned None, at a time when id 2, handed out
\* earlier, is no longer stored.
C9_Witness ==
    /\ resp.op = "update_document"
    /\ resp.status = "returned"
    /\ resp.flag = FALSE
    /\ doc_seq >= 2
    /\ ~Stored(document_info, 2)

\* C10: delete_document returns True exactly when the id was stored and the
\* document is gone afterwards; for an id that is not stored it returns
\* False, raises nothing and changes nothing, and the delete handler answers
\* accordingly.  Ids are never handed out twice, so a second delete of the
\* same id is such a call.
C10_DeleteReturnsWhetherRemoved ==
    /\ [](\A d \in document_info : d.document_id <= doc_seq)
    /\ [][ \A d \in DocIds :
             /\ ( /\ resp'.op = "delete_document"
                  /\ resp'.id = d
                  /\ DeleteDocument(d) ) =>
                  /\ (resp'.status = "returned" /\ resp'.flag = TRUE) <=>
                       (Stored(document_info, d) /\ ~Stored(document_info', d))
                  /\ ~Stored(document_info, d) =>
                       /\ resp'.status = "returned"
                       /\ resp'.flag = FALSE
                       /\ UNCHANGED tables
                  /\ doc_seq' = doc_seq
             /\ ( /\ resp'.op = "delete_document_route"
                  /\ resp'.id = d
                  /\ delete_document_route(d) ) =>
                  /\ resp'.status = "ok" <=>
                       (Stored(document_info, d) /\ ~Stored(document_info', d))
                  /\ ~Stored(document_info, d) =>
                       /\ resp'.status = "not_found"
                       /\ UNCHANGED tables
         ]_vars

\* delete_document has just returned False for an id that had been handed
\* out, so that had been stored and deleted before.
C10_Witness ==
    /\ resp.op = "delete_document"
    /\ resp.status = "returned"
    /\ resp.flag = FALSE
    /\ resp.id >= 2
    /\ resp.id <= doc_seq


\* ------------------------------------------------------------------ notes

NoteExists(note_id) == \E n \in annotation : n.annotation_id = note_id

OwnerOf(note_id) == get_note(annotation, note_id).user_id

\* C11 as the specification words it: an edit or delete request on a note by
\* a user who is not its owner is answered 403 and changes no note, and the
\* same request by the owner is answered 200 -- whatever the request carries.
C11_NonOwnerForbiddenOwnerSucceeds ==
    [][ /\ \A u \in UserIds, n \in NoteIds, c \in FormContents, t \in Tags :
             ( /\ resp'.op = "edit_note"
               /\ resp'.id = u
               /\ NoteExists(n)
               /\ edit_note(u, n, c, t) ) =>
               IF OwnerOf(n) # u
               THEN resp'.status = "403" /\ annotation' = annotation
               ELSE resp'.status = "200"
        /\ \A u \in UserIds, n \in NoteIds :
             ( /\ resp'.op = "remove_note"
               /\ resp'.id = u
               /\ NoteExists(n)
               /\ remove_note(u, n) ) =>
               IF OwnerOf(n) # u
               THEN resp'.status = "403" /\ annotation' = annotation
               ELSE resp'.status = "200" ]_vars

\* C11, amended: an edit request with non-blank content, or a delete
\* request, on a note by a user who is not its owner is answered 403 and
\* changes no note; the same request by the owner is answered 200, and the
\* note then carries the stripped content and tags, or is gone.  An edit
\* request with blank content is answered 400 for owner and non-owner alike
\* and changes no note.  Whenever a note is changed or removed, the step is
\* a successful edit or delete request of its owner.
C11_OnlyOwnerChangesNote ==
    [][ /\ \A u \in UserIds, n \in NoteIds, c \in FormContents, t \in Tags :
             ( /\ resp'.op = "edit_note"
               /\ resp'.id = u
               /\ NoteExists(n)
               /\ edit_note(u, n, c, t) ) =>
               IF strip(c) = <<>>
               THEN resp'.status = "400" /\ annotation' = annotation
               ELSE IF OwnerOf(n) # u
               THEN resp'.status = "403" /\ annotation' = annotation
               ELSE /\ resp'.status = "200"
                    /\ \E m \in annotation' :
                         /\ m.annotation_id = n
                         /\ m.user_id = u
                         /\ m.annotation_content = strip(c)
                         /\ m.annotation_tags = strip(t)
                    /\ { m \in annotation' : m.annotation_id # n }
                         = { m \in annotation : m.annotation_id # n }
        /\ \A u \in UserIds, n \in NoteIds :
             ( /\ resp'.op = "remove_note"
               /\ resp'.id = u
               /\ NoteExists(n)
               /\ remove_note(u, n) ) =>
               IF OwnerOf(n) # u
               THEN resp'.status = "403" /\ annotation' = annotation
               ELSE /\ resp'.status = "200"
                    /\ annotation'
                         = { m \in annotation : m.annotation_id # n }
        /\ \A m \in annotation :
             m \notin annotation' =>
               /\ resp'.op \in { "edit_note", "remove_note" }
               /\ resp'.id = m.user_id
               /\ resp'.status = "200" ]_vars

\* A request of user 2 has been answered 403 while every note id names a
\* note of user 1: the request was aimed at a note of somebody else.
C11_Witness ==
    /\ resp.op \in { "edit_note", "remove_note" }
    /\ resp.status = "403"
    /\ resp.id = 2
    /\ \A n \in NoteIds : NoteExists(n) /\ OwnerOf(n) = 1

\* C12: every note's update_time is no earlier than its annotation_time.
C12_UpdatedNotBeforeCreated ==
    \A n \in annotation : n.update_time >= n.annotation_time

\* What a caller who does not own note n is told: it depends on the request
\* alone, never on the table.
NotOwnerAnswer(op, user_id, rawcontent) ==
    IF op = "edit_note" /\ strip(rawcontent) = <<>>
    THEN Response(op, "400", user_id, FALSE)
    ELSE Response(op, "403", user_id, FALSE)

\* C13: an edit or delete request of a caller who does not own the note is
\* answered the same, and changes nothing, whether the note id names no note
\* or names the note of another user.
C13_SameAnswerMissingOrForeign ==
    [][ /\ \A u \in UserIds, n \in NoteIds, c \in FormContents, t \in Tags :
             ( /\ resp'.op = "edit_note"
               /\ resp'.id = u
               /\ OwnerOf(n) # u
               /\ edit_note(u, n, c, t) ) =>
               /\ resp' = NotOwnerAnswer("edit_note", u, c)
               /\ annotation' = annotation
        /\ \A u \in UserIds, n \in NoteIds :
             ( /\ resp'.op = "remove_note"
               /\ resp'.id = u
               /\ OwnerOf(n) # u
               /\ remove_note(u, n) ) =>
               /\ resp' = NotOwnerAnswer("remove_note", u, <<>>)
               /\ annotation' = annotation ]_vars

\* A request has been answered 403 while the table holds no note at all: it
\* was aimed at a note id that names no note.
C13_Witness ==
    /\ resp.op \in { "edit_note", "remove_note" }
    /\ resp.status = "403"
    /\ annotation = {}


\* ------------------------------------------------------- reading progress

RecordOf(records, user_id, resource_id) ==
    { a \in records : a.user_id = user_id /\ a.resource_id = resource_id }

\* What the specification says is stored for a submitted integer.
Clamped(v) == IF v < 0 THEN 0 ELSE IF v > 100 THEN 100 ELSE v

\* C14: every access record's progress lies in 0..100, and a record-progress
\* request that carries an integer and is answered 200 leaves the pair's
\* record with that integer brought into 0..100: 150 stores 100, -10 stores
\* 0, 50 stores 50.
C14_ProgressClamped ==
    /\ [](\A a \in access_record : a.read_progress \in 0..100)
    /\ [][ \A u \in UserIds, r \in UrlResourceIds, f \in FormProgress :
             ( /\ resp'.op = "record_read_progress"
               /\ resp'.id = u
               /\ resp'.status = "200"
               /\ record_read_progress(u, r, f) ) =>
               /\ ~form_progress(f).raised
               /\ \A a \in RecordOf(access_record', u, r) :
                    a.read_progress = Clamped(form_progress(f).value)
               /\ RecordOf(access_record', u, r) # {} ]_vars

\* User 2 holds a record of progress 100 on resource 2, which only the
\* request carrying 150 stores, next to one of progress 0 on resource 1,
\* which the request carrying -10 (or no progress) stores.
C14_Witness ==
    /\ \E a \in access_record :
         a.user_id = 2 /\ a.resource_id = 2 /\ a.read_progress = 100
    /\ \E a \in access_record :
         a.user_id = 2 /\ a.resource_id = 1 /\ a.read_progress = 0

\* C15: no pair of user and resource has two access records, and a
\* record-progress request answered 200 leaves the pair with one record
\* holding the request's progress; when the pair had a record before, the
\* request adds no row.
C15_OneRecordPerPair ==
    /\ [](\A a, b \in access_record :
            (a.user_id = b.user_id /\ a.resource_id = b.resource_id) => a = b)
    /\ [][ \A u \in UserIds, r \in UrlResourceIds, f \in FormProgress :
             ( /\ resp'.op = "record_read_progress"
               /\ resp'.id = u
               /\ resp'.status = "200"
               /\ record_read_progress(u, r, f) ) =>
               /\ Cardinality(RecordOf(access_record', u, r)) = 1
               /\ \A a \in RecordOf(access_record', u, r) :
                    a.read_progress = clamp(form_progress(f).value)
               /\ RecordOf(access_record, u, r) # {} =>
                    Cardinality(access_record') = Cardinality(access_record)
               /\ \A v \in UserIds, q \in UrlResourceIds :
                    <<v, q>> # <<u, r>> =>
                      RecordOf(access_record', v, q)
                        = RecordOf(access_record, v, q) ]_vars

\* A second request for the pair of the seeded record has been answered 200:
\* the pair's record holds progress 50 and is still the table's only row.
C15_Witness ==
    /\ resp.op = "record_read_progress"
    /\ resp.status = "200"
    /\ Cardinality(access_record) = 1
    /\ \E a \in access_record :
         a.user_id = 1 /\ a.resource_id = 1 /\ a.read_progress = 50


\* ----------------------------------------------------------------- search

\* text contains keyword, character for character.
Contains(text, keyword) ==
    /\ text # None
    /\ \E i \in 1..(Len(text) - Len(keyword) + 1) :
         SubSeq(text, i, i + Len(keyword) - 1) = keyword

\* text contains keyword when case is ignored and _ in the keyword stands for
\* any one character.
ContainsLoosely(text, keyword) ==
    /\ text # None
    /\ \E i \in 1..(Len(text) - Len(keyword) + 1) :
         \A j \in 1..Len(keyword) :
           \/ keyword[j] = "_"
           \/ lower_char(keyword[j]) = lower_char(text[i + j - 1])

\* C16: fulltext_search_resources returns every resource whose
\* simplified_text contains the keyword, and returns nothing when no
\* resource's text contains the keyword.
C16_FulltextFindsContaining ==
    [][ \A k \in ArgKeywords :
          ( /\ resp'.op = "fulltext_search_resources"
            /\ FulltextSearchResources(k) ) =>
            /\ \A r \in resource_content :
                 Contains(r.simplified_text, k) => r.resource_id \in results'
            /\ (\A r \in resource_content :
                  /\ ~Contains(r.original_text, k)
                  /\ ~Contains(r.simplified_text, k)
                  /\ ~Contains(r.vernacular_translation, k)) =>
                 results' = {} ]_vars

\* C18 as the specification words it: search_transcription_by_keyword
\* returns exactly the resources of which original_text, simplified_text or
\* vernacular_translation contains the keyword.
C18_ThreeColumnsContain ==
    [][ \A k \in ArgKeywords :
          ( /\ resp'.op = "search_transcription_by_keyword"
            /\ SearchTranscriptionByKeyword(k) ) =>
            results' = { r.resource_id : r \in { x \in resource_content :
                           \/ Contains(x.original_text, k)
                           \/ Contains(x.simplified_text, k)
                           \/ Contains(x.vernacular_translation, k) } } ]_vars

\* C18, amended: search_transcription_by_keyword returns exactly the
\* resources of which simplified_text or vernacular_translation contains the
\* keyword, where case is ignored and _ in the keyword stands for any one
\* character; original_text is not searched.
C18_TwoColumnsContainLoosely ==
    [][ \A k \in ArgKeywords :
          ( /\ resp'.op = "search_transcription_by_keyword"
            /\ SearchTranscriptionByKeyword(k) ) =>
            results' = { r.resource_id : r \in { x \in resource_content :
                           \/ ContainsLoosely(x.simplified_text, k)
                           \/ ContainsLoosely(x.vernacular_translation, k) } }
      ]_vars

\* The search for "a" has returned resource 2 alone, whose
\* vernacular_translation holds it, while resource 1 holds it in
\* original_text only.
C18_Witness ==
    /\ resp.op = "search_transcription_by_keyword"
    /\ results = {2}
    /\ \E r \in resource_content :
         /\ r.resource_id = 1
         /\ Contains(r.original_text, <<"A">>)
         /\ ~ContainsLoosely(r.simplified_text, <<"a">>)
         /\ ~ContainsLoosely(r.vernacular_translation, <<"a">>)
    /\ \E r \in resource_content :
         /\ r.resource_id = 2
         /\ ~ContainsLoosely(r.simplified_text, <<"a">>)
         /\ ContainsLoosely(r.vernacular_translation, <<"a">>)


\* ------------------------------------------------------------ registration

\* C17: no two users share a username and no two users share an email; a
\* registration request whose username or email belongs to a user when the
\* request looks for it, or when the request inserts, is rejected and
\* creates no user.
C17_UniqueUsernameAndEmail ==
    /\ [](\A x, y \in user_info :
            (x.username = y.username \/ x.user_email = y.user_email) => x = y)
    /\ [][ \A p \in Procs, n \in FormUsernames, e \in FormEmails :
             ( /\ resp'.op = "register"
               /\ resp'.id = p
               /\ \/ \E x \in user_info : x.username = strip(n)
                  \/ \E x \in user_info : x.user_email = strip(e)
               /\ \E w \in FormPasswords, v \in FormPasswords2 :
                    register_check(p, n, e, w, v) ) =>
               /\ resp'.status \in { "blank", "mismatch", "short",
                                     "username_exists", "email_exists" }
               /\ user_info' = user_info
               /\ inflight' = inflight ]_vars
    /\ [][ \A p \in Procs :
             ( /\ resp'.op = "register"
               /\ resp'.id = p
               /\ \/ \E x \in user_info : x.username = inflight[p].name
                  \/ \E x \in user_info : x.user_email = inflight[p].region
               /\ register_create(p) ) =>
               /\ resp'.status = "failed"
               /\ user_info' = user_info ]_vars

\* A registration that passed both look-ups has been refused at its insert:
\* the other request in flight registered first, with the email "g".
C17_Witness ==
    /\ resp.op = "register"
    /\ resp.status = "failed"
    /\ \E x \in user_info : x.user_email = <<"g">> /\ x.user_id = 3
    /\ Cardinality(user_info) = 3


\* ------------------------------------------------- sessions and commits

\* C19: get_session hands a request a session no request has had before;
\* the open sessions are those held by the requests in flight, each by one
\* request; and every session that is open is closed later, whichever way
\* the request leaves: normal return, early return, exception.
C19_OwnSessionAlwaysClosed ==
    /\ [][ \A p \in Procs :
             (sessions'.held[p] # sessions.held[p] /\ sessions'.held[p] # 0) =>
               /\ sessions'.held[p] \notin 1..sessions.made
               /\ sessions.held[p] = 0 ]_vars
    /\ [](\A p, q \in Procs :
            (p # q /\ sessions.held[p] # 0) =>
              sessions.held[p] # sessions.held[q])
    /\ [](sessions.open = { sessions.held[p] : p \in Procs } \ {0})
    /\ [](\A p \in Procs : inflight[p].pc = "idle" <=> sessions.held[p] = 0)
    /\ \A s \in 1..MaxSessions :
         (s \in sessions.open) ~> (s \notin sessions.open)

\* Sessions have been closed on each of the three ways out: the last request
\* left by the except clause, an earlier one stored document "b", and
\* another returned early at the look-up; all sessions made are closed.
C19_Witness ==
    /\ resp = Response("add_document", "error", resp.id, FALSE)
    /\ sessions.made = MaxSessions
    /\ sessions.open = {}
    /\ \E d \in document_info : d.document_name = <<"b">>

\* The rows of every table.
Rows ==
    <<document_info, resource_content, annotation, collection_info,
      access_record, user_info>>

\* C20: when the commit of create_document, update_document or
\* delete_document fails, the call raises and every table holds the rows it
\* held before; in add_document the exception takes the request to its
\* except clause, which answers with one error and ends the request.
C20_FailedCommitChangesNothing ==
    [][ /\ \A n \in ArgNames, r \in TxRegions :
             ( /\ resp'.op = "create_document"
               /\ CreateDocumentCommit(n, r, None, FALSE) ) =>
               resp'.status = "raised" /\ Rows' = Rows
        /\ \A d \in DocIds, n \in TxNames, r \in TxRegions :
             ( /\ resp'.op = "update_document"
               /\ resp'.id = d
               /\ get_document_by_id(document_info, d) # NoDocument
               /\ UpdateDocumentCommit(d, n, r, FALSE) ) =>
               resp'.status = "raised" /\ Rows' = Rows
        /\ \A d \in DocIds :
             ( /\ resp'.op = "delete_document"
               /\ resp'.id = d
               /\ get_document_by_id(document_info, d) # NoDocument
               /\ DeleteDocumentCommit(d, FALSE) ) =>
               resp'.status = "raised" /\ Rows' = Rows
        /\ ( /\ resp'.op = "add_document"
             /\ resp'.status = "committed"
             /\ add_document_commit(1, FALSE) ) =>
             inflight'[1].pc = "except" /\ Rows' = Rows
        /\ ( /\ resp'.op = "add_document"
             /\ inflight[1].pc = "except"
             /\ add_document_finally(1) ) =>
             /\ resp' = Response("add_document", "error", 1, FALSE)
             /\ inflight'[1] = Idle
             /\ Rows' = Rows ]_vars

\* update_document has raised on document 1 while it is the only document:
\* no other name could be in its way, so its commit failed.
C20_Witness ==
    /\ resp = Response("update_document", "raised", 1, FALSE)
    /\ Cardinality(document_info) = 1

====
